---- MODULE Spec2Model ----
(***************************************************************************)
(* A model of the QUIC endpoint core of quicker:                           *)
(*   - PacketHandler (src/src/utilities/handlers/packet.handler.ts)        *)
(*   - CongestionControl (src/src/congestion-control/congestion.control.ts)*)
(*   - StreamManager (src/src/quicker/stream.manager.ts)                   *)
(*   - Alarm (src/unnamed/part_004)                                        *)
(* Each component has its own specification over the module's variables;   *)
(* the variables of the other components keep their initial values.        *)
(***************************************************************************)
EXTENDS Integers, Sequences, FiniteSets, TLC

VARIABLES
    \* ---- PacketHandler / Connection ----
    connection,     \* the Connection object: the fields the handler reads and writes
    packet,         \* the packet last passed to PacketHandler.handle
    calls,          \* the calls handle() made on its collaborators for that packet, in order
    error,          \* what handle() threw for that packet ("none" when it returned)
    retryWrites,    \* history: setDestConnectionID calls made by handleRetryPacket
    handshakeWrites,\* history: setDestConnectionID calls made by handleHandshakePacket
    resetConnections,\* history: connection.resetConnection calls so far
    retrySeen,      \* history: a Retry packet was passed to handle() before this one
    \* ---- CongestionControl ----
    bytesInFlight,
    congestionWindow,
    endOfRecovery,
    sshtresh,
    packetsQueue,
    nextPacketNumber, \* the number connection.getNextPacketNumber() returns next
    sentPackets,      \* history: packet number -> the packet sent with that number
    ackedPackets,     \* history: numbers of the packets reported by PACKET_ACKED
    lostPackets,      \* history: numbers of the packets reported by PACKETS_LOST
    eventsOnce,       \* history: no packet was reported acked or lost more than once
    events,           \* number of loss-detection events delivered so far
    sentAtLoss,       \* history: how many packets had been sent when the current recovery
                      \*          epoch began
    \* ---- StreamManager ----
    streams,          \* this.streams: the Stream objects, each [id, serial]
    constructed,      \* history: the stream IDs of the Stream objects constructed so far;
                      \*          the object with serial k has the ID constructed[k]
    initialized,      \* history: INITIALIZED_STREAM events emitted so far
    returned,         \* what the last call of getStream or getNextStream returned
    \* ---- Alarm ----
    running,          \* this.running
    timer,            \* this.timer: the handle of the last setTimeout, 0 before the first
    pendingTimers,    \* the runtime's timers that were set and neither fired nor cleared:
                      \*          handle -> deadline
    now,              \* the runtime's clock, in milliseconds
    timeouts,         \* history: for every TIMEOUT emitted, the handle of the timer that
                      \*          fired, in order
    resetTimers,      \* history: the handles reset() was called on before they fired
    alarmCall,        \* history: the last call on the alarm or step of the runtime, and
                      \*          whether the alarm was running when it began
    \* ---- PacketNumber ----
    largestPn,        \* the value of the PacketNumber a receiver holds: the largest it has seen
    sentPn,           \* the packet number of the packet received last, as the peer sent it
    pnSize,           \* the bytes that packet carried of it, 0 when none came since setValue
    truncatedPn,      \* those bytes
    adjustedPn        \* what adjustNumber returned for them

phVars == <<connection, packet, calls, error, retryWrites, handshakeWrites, resetConnections,
           retrySeen>>
ccVars == <<bytesInFlight, congestionWindow, endOfRecovery, sshtresh, packetsQueue,
            nextPacketNumber, sentPackets, ackedPackets, lostPackets, eventsOnce, events,
            sentAtLoss>>
smVars == <<streams, constructed, initialized, returned>>
alarmVars == <<running, timer, pendingTimers, now, timeouts, resetTimers, alarmCall>>
pnVars == <<largestPn, sentPn, pnSize, truncatedPn, adjustedPn>>
vars == <<phVars, ccVars, smVars, alarmVars, pnVars>>

(***************************************************************************)
(* Bounds of the model.                                                    *)
(***************************************************************************)
NumCIDs == 2            \* connection IDs 1..NumCIDs occur in packets
MaxVersionList == 2     \* longest version list of a Version Negotiation packet
MaxFrames == 2          \* most frames in one packet
MaxWrites == 3          \* handle() is followed until the destination ID was written this often
MaxResets == 2          \* ... or the connection was reset this often
MaxPackets == 4         \* packets handed to queuePackets in one behaviour
MaxEvents == 2          \* loss-detection events in one behaviour
ScenarioPackets == 20   \* full packets queued in the bulk-transfer scenario
ScenarioAcked == 10     \* how many of them are acknowledged before the loss
ScenarioLost == 15      \* the number of the packet then declared lost
MaxStreamID == 5        \* callers ask the stream manager for the stream IDs 0..MaxStreamID
MaxStreams == 3         \* Stream objects constructed in one behaviour
MaxTimeInMs == 2        \* callers start the alarm with delays of 1..MaxTimeInMs milliseconds
MaxTimers == 3          \* setTimeout calls in one behaviour
MaxNow == 4             \* the clock is followed up to this many milliseconds
MaxLargest == 2         \* the receiver's largest packet number: 0..MaxLargest, and chosen larger ones
MaxOffset == 3          \* sent packet numbers: up to this far from the expected one, and chosen farther ones

(***************************************************************************)
(* Values.                                                                 *)
(***************************************************************************)
\* `undefined`: no destination connection ID yet / no negotiated version yet.
Undefined == 0

CIDs == 1..NumCIDs

\* Version numbers that occur on the wire in the model. 2 is not supported
\* locally; 9 and 16 are, and their hex strings "9" and "10" order the other
\* way round than the numbers do.
VersionValues == {2, 9, 16}

RECURSIVE HexDigits(_)
\* Bignum.toString("hex") of a version: its hexadecimal digits, most
\* significant first, each digit as its value 0..15 (the order of the
\* characters '0'..'9','a'..'f' is the order of their values).
HexDigits(n) ==
    IF n < 16 THEN <<n>> ELSE Append(HexDigits(n \div 16), n % 16)

\* Version.toString()
VersionToString(version) == HexDigits(version)

\* Constants.SUPPORTED_VERSIONS: the version strings this endpoint supports.
SUPPORTED_VERSIONS == {VersionToString(9), VersionToString(16)}

\* JavaScript's a > b on strings: lexicographic by code unit, a proper
\* extension being greater than its prefix.
StringGreater(a, b) ==
    \E i \in 1..Len(a) :
        /\ \A j \in 1..(i - 1) : j <= Len(b) /\ a[j] = b[j]
        /\ (i > Len(b) \/ (i <= Len(b) /\ a[i] > b[i]))

RECURSIVE SeqsUpTo(_, _)
SeqsUpTo(S, n) ==
    IF n = 0 THEN {<< >>}
    ELSE LET shorter == SeqsUpTo(S, n - 1)
         IN  shorter \cup {Append(s, x) : s \in shorter, x \in S}

FrameIds == {1, 2}

PacketTypes == {"VersionNegotiation", "Initial", "Retry", "Handshake",
                "Protected0RTT", "Protected1RTT"}

\* The packets the socket can deliver.
VersionNegotiationPackets ==
    [type : {"VersionNegotiation"}, srcConnectionID : {1, 2}, destConnectionID : {1, 2},
     versions : SeqsUpTo(VersionValues, MaxVersionList), frames : {<< >>}]

\* Retry and Handshake packets: the handler reads their source connection ID.
LongHeaderPackets ==
    [type : {"Retry", "Handshake"}, srcConnectionID : CIDs,
     destConnectionID : {2}, versions : {<< >>}, frames : SeqsUpTo(FrameIds, MaxFrames)]

\* The packets whose connection IDs the handler does not read.
OtherPackets ==
    [type : {"Initial", "Protected0RTT", "Protected1RTT"}, srcConnectionID : {1},
     destConnectionID : {2}, versions : {<< >>}, frames : SeqsUpTo(FrameIds, MaxFrames)]

Packets == VersionNegotiationPackets \cup LongHeaderPackets \cup OtherPackets

NoPacket == [type |-> "None", srcConnectionID |-> Undefined, destConnectionID |-> Undefined,
             versions |-> << >>, frames |-> << >>]

Call(name, arg) == [call |-> name, arg |-> arg]

\* What a handler did: the connection it leaves, the calls it made on its
\* collaborators, the error it threw, whether it wrote the destination ID.
Outcome(conn, made, err, wrote) == [conn |-> conn, calls |-> made, err |-> err, wrote |-> wrote]

(***************************************************************************)
(* Connection (its methods are called by the handler).                     *)
(***************************************************************************)
\* connection.resetConnection(negotiatedVersion): restarts the connection
\* with the negotiated version.
resetConnection(conn, negotiatedVersion) == [conn EXCEPT !.version = negotiatedVersion]

(***************************************************************************)
(* PacketHandler                                                           *)
(***************************************************************************)
\* handleFrames: every frame of the packet goes to the frame handler, in order.
handleFrames_Reversed(p) ==
    [i \in 1..Len(p.frames) |-> Call("frameHandler.handle", p.frames[Len(p.frames) + 1 - i])]

handleFrames(p) == [i \in 1..Len(p.frames) |-> Call("frameHandler.handle", p.frames[i])]

\* The first forEach of handleVersionNegotiationPacket.
containsChosenVersion(conn, p) ==
    \E i \in 1..Len(p.versions) : VersionToString(p.versions[i]) = VersionToString(conn.initialVersion)

\* One step of the second forEach: the version negotiated so far, updated by
\* the next version of the packet.
SelectVersion_Unsupported(negotiatedVersion, version) ==
    IF negotiatedVersion = Undefined THEN version
    ELSE IF StringGreater(VersionToString(version), VersionToString(negotiatedVersion))
         THEN version ELSE negotiatedVersion

SelectVersion_PickNumeric(negotiatedVersion, version) ==
    IF VersionToString(version) \in SUPPORTED_VERSIONS
    THEN IF negotiatedVersion = Undefined THEN version
         ELSE IF version > negotiatedVersion THEN version ELSE negotiatedVersion
    ELSE negotiatedVersion

SelectVersion(negotiatedVersion, version) ==
    IF VersionToString(version) \in SUPPORTED_VERSIONS
    THEN IF negotiatedVersion = Undefined THEN version
         ELSE IF StringGreater(VersionToString(version), VersionToString(negotiatedVersion))
              THEN version ELSE negotiatedVersion
    ELSE negotiatedVersion

RECURSIVE NegotiatedVersion(_, _)
\* The second forEach, over the packet's versions in the packet's order.
NegotiatedVersion(versions, negotiatedVersion) ==
    IF versions = << >> THEN negotiatedVersion
    ELSE NegotiatedVersion(Tail(versions), SelectVersion(negotiatedVersion, Head(versions)))

\* The guard "we should only react to the first VersionNegotationPacket".
AlreadyNegotiated_Never(conn) == FALSE

AlreadyNegotiated(conn) == VersionToString(conn.version) # VersionToString(conn.initialVersion)

\* The connection-ID check of a Version Negotiation packet.
WrongConnectionIDs_SrcOnly(conn, p) ==
    conn.initialDestConnectionID # p.srcConnectionID

WrongConnectionIDs(conn, p) ==
    \/ conn.initialDestConnectionID # p.srcConnectionID
    \/ conn.srcConnectionID # p.destConnectionID

\* The return on a packet that lists the chosen version.
IgnoreChosenVersion_Never(conn, p) == FALSE

IgnoreChosenVersion(conn, p) == containsChosenVersion(conn, p)

handleVersionNegotiationPacket(conn, p) ==
    IF AlreadyNegotiated(conn) THEN Outcome(conn, << >>, "none", FALSE)
    ELSE IF WrongConnectionIDs(conn, p)
         THEN Outcome(conn, << >>, "VERSION_NEGOTIATION_ERROR", FALSE)
    ELSE IF IgnoreChosenVersion(conn, p) THEN Outcome(conn, << >>, "none", FALSE)
    ELSE LET negotiatedVersion == NegotiatedVersion(p.versions, Undefined)
         IN  IF negotiatedVersion = Undefined
             THEN Outcome(conn, << >>, "VERSION_NEGOTIATION_ERROR", FALSE)
             ELSE Outcome(resetConnection(conn, negotiatedVersion),
                          <<Call("resetConnection", negotiatedVersion)>>, "none", FALSE)

handleInitialPacket(conn, p) == Outcome(conn, handleFrames(p), "none", FALSE)

\* The condition under which handleRetryPacket writes the destination ID.
RetryWritesDestID_Always(conn) == TRUE

RetryWritesDestID(conn) == conn.destConnectionID = Undefined

\* The "else if" of handleRetryPacket: a new destination ID in a later Retry packet.
RetryIgnored_Never(conn, p) == FALSE

RetryIgnored(conn, p) == conn.destConnectionID # p.srcConnectionID

handleRetryPacket(conn, p) ==
    IF conn.endpointType = "Client" /\ RetryWritesDestID(conn)
    THEN Outcome([conn EXCEPT !.destConnectionID = p.srcConnectionID, !.retrySent = TRUE],
                 handleFrames(p) \o <<Call("resetConnectionState", 0)>>, "none", TRUE)
    ELSE IF conn.endpointType = "Client" /\ RetryIgnored(conn, p)
         THEN Outcome(conn, << >>, "IGNORE_PACKET_ERROR", FALSE)
    ELSE Outcome(conn, handleFrames(p) \o <<Call("resetConnectionState", 0)>>, "none", FALSE)

\* The condition under which handleHandshakePacket writes the destination ID.
HandshakeWritesDestID_Always(conn) == TRUE

HandshakeWritesDestID(conn) == conn.destConnectionID = Undefined \/ conn.retrySent

\* The "else if" of handleHandshakePacket: a new destination ID in a later
\* Handshake packet.
HandshakeIgnored(conn, p) == conn.destConnectionID # p.srcConnectionID

handleHandshakePacket(conn, p) ==
    IF conn.endpointType = "Client" /\ HandshakeWritesDestID(conn)
    THEN Outcome([conn EXCEPT !.destConnectionID = p.srcConnectionID, !.retrySent = FALSE],
                 handleFrames(p), "none", TRUE)
    ELSE IF conn.endpointType = "Client" /\ HandshakeIgnored(conn, p)
         THEN Outcome(conn, << >>, "IGNORE_PACKET_ERROR", FALSE)
    ELSE Outcome(conn, handleFrames(p), "none", FALSE)

handleProtected0RTTPacket(conn, p) == Outcome(conn, handleFrames(p), "none", FALSE)

handleProtected1RTTPacket(conn, p) == Outcome(conn, handleFrames(p), "none", FALSE)

\* The switch of PacketHandler.handle.
Dispatch(conn, p) ==
    CASE p.type = "VersionNegotiation" -> handleVersionNegotiationPacket(conn, p)
      [] p.type = "Initial"            -> handleInitialPacket(conn, p)
      [] p.type = "Retry"              -> handleRetryPacket(conn, p)
      [] p.type = "Handshake"          -> handleHandshakePacket(conn, p)
      [] p.type = "Protected0RTT"      -> handleProtected0RTTPacket(conn, p)
      [] p.type = "Protected1RTT"      -> handleProtected1RTTPacket(conn, p)

\* PacketHandler.handle(connection, packet, receivedTime)
handle_ReportAfterDispatch(p) ==
    /\ retryWrites + handshakeWrites < MaxWrites
    /\ resetConnections < MaxResets
    /\ LET out == Dispatch(connection, p)
       IN  /\ connection' = out.conn
           /\ calls' = out.calls \o
                       (IF out.err = "none"
                        THEN <<Call("onPacketReceived", 0), Call("sendPackets", 0)>> ELSE << >>)
           /\ error' = out.err
           /\ retryWrites' = retryWrites + (IF p.type = "Retry" /\ out.wrote THEN 1 ELSE 0)
           /\ handshakeWrites' =
                 handshakeWrites + (IF p.type = "Handshake" /\ out.wrote THEN 1 ELSE 0)
           /\ resetConnections' = resetConnections +
                 Cardinality({i \in 1..Len(out.calls) : out.calls[i].call = "resetConnection"})
    /\ packet' = p
    /\ retrySeen' = (retrySeen \/ packet.type = "Retry")
    /\ UNCHANGED <<ccVars, smVars, alarmVars, pnVars>>

handle(p) ==
    /\ retryWrites + handshakeWrites < MaxWrites
    /\ resetConnections < MaxResets
    /\ LET out == Dispatch(connection, p)
       IN  /\ connection' = out.conn
           /\ calls' = <<Call("onPacketReceived", 0)>> \o out.calls \o
                       (IF out.err = "none" THEN <<Call("sendPackets", 0)>> ELSE << >>)
           /\ error' = out.err
           /\ retryWrites' = retryWrites + (IF p.type = "Retry" /\ out.wrote THEN 1 ELSE 0)
           /\ handshakeWrites' =
                 handshakeWrites + (IF p.type = "Handshake" /\ out.wrote THEN 1 ELSE 0)
           /\ resetConnections' = resetConnections +
                 Cardinality({i \in 1..Len(out.calls) : out.calls[i].call = "resetConnection"})
    /\ packet' = p
    /\ retrySeen' = (retrySeen \/ packet.type = "Retry")
    /\ UNCHANGED <<ccVars, smVars, alarmVars, pnVars>>

(***************************************************************************)
(* CongestionControl                                                       *)
(***************************************************************************)
DEFAULT_MSS == 1460
INITIAL_WINDOW == DEFAULT_MSS * 10
MINIMUM_WINDOW == DEFAULT_MSS * 2
\* Bignum.infinity(), the initial sshtresh: greater than every number.
Infinity == -1

\* The packets the connection hands to queuePackets, with their sizes in bytes
\* (packet.toBuffer(connection).byteLength): an ack-only packet and a full one.
QueuedPackets == {[size |-> 40, ackOnly |-> TRUE], [size |-> DEFAULT_MSS, ackOnly |-> FALSE]}

\* Packets handed to queuePackets so far.
Created == Len(packetsQueue) + Cardinality(DOMAIN sentPackets)

\* Bignum.lessThan, with Bignum.infinity() as a possible right-hand side.
LessThan(a, b) == b = Infinity \/ a < b

\* this.congestionWindow.multiply(LOSS_REDUCTION_FACTOR): half the window, an integer.
MultiplyLossReduction(window) == window \div 2

Max(a, b) == IF a > b THEN a ELSE b

inRecovery_Strict(packetNumber, endOfRec) == packetNumber < endOfRec

\* inRecovery(packetNumber)
inRecovery(packetNumber, endOfRec) == packetNumber <= endOfRec

\* onPacketSent: the new bytesInFlight.
onPacketSent_CountAll(bif, p) == bif + p.size

onPacketSent(bif, p) == IF ~p.ackOnly THEN bif + p.size ELSE bif

\* The loop condition of sendPackets.
MaySend_IgnoreWindow(bif, window, queue) == Len(queue) > 0

MaySend(bif, window, queue) == bif < window /\ Len(queue) > 0

\* connection.getNextPacketNumber(): the number after the one handed out last.
\* s.next is the number the next call returns.
getNextPacketNumber(next) == next + 1

\* The body of the loop of sendPackets: the head of the queue is shifted off,
\* gets connection.getNextPacketNumber() and goes to the socket.
Transmit_FromBack(s) ==
    LET p == s.queue[Len(s.queue)]
    IN  [bif   |-> onPacketSent(s.bif, p),
         queue |-> SubSeq(s.queue, 1, Len(s.queue) - 1),
         next  |-> getNextPacketNumber(s.next),
         sent  |-> (s.next :> p) @@ s.sent]

Transmit_SameNumber(s) ==
    LET p == Head(s.queue)
    IN  [bif   |-> onPacketSent(s.bif, p),
         queue |-> Tail(s.queue),
         next  |-> s.next,
         sent  |-> (s.next :> p) @@ s.sent]

Transmit(s) ==
    LET p == Head(s.queue)
    IN  [bif   |-> onPacketSent(s.bif, p),
         queue |-> Tail(s.queue),
         next  |-> getNextPacketNumber(s.next),
         sent  |-> (s.next :> p) @@ s.sent]

RECURSIVE sendPackets(_, _)
\* sendPackets: while the window allows, shift a packet off the queue, give
\* it the connection's next packet number and send it; the connection's
\* PACKET_SENT event runs onPacketSent before the loop tests again.
\* s = [bif, queue, next, sent]
sendPackets(s, window) ==
    IF MaySend(s.bif, window, s.queue)
    THEN sendPackets(Transmit(s), window)
    ELSE s

SenderState == [bif |-> bytesInFlight, queue |-> packetsQueue,
                next |-> nextPacketNumber, sent |-> sentPackets]

\* The assignments sendPackets leaves behind.
Sent(s) ==
    /\ bytesInFlight' = s.bif
    /\ packetsQueue' = s.queue
    /\ nextPacketNumber' = s.next
    /\ sentPackets' = s.sent

\* queuePackets(packets)
queuePackets(packets) ==
    /\ Sent(sendPackets([SenderState EXCEPT !.queue = packetsQueue \o packets], congestionWindow))
    /\ UNCHANGED <<congestionWindow, endOfRecovery, sshtresh, ackedPackets, lostPackets,
                   eventsOnce, events, sentAtLoss>>
    /\ UNCHANGED <<phVars, smVars, alarmVars, pnVars>>

\* The early return of onPacketAcked on an ack-only packet.
AckIgnored_Never(p) == FALSE

AckIgnored(p) == p.ackOnly

WindowAfterAck_AlwaysSlowStart(window, threshold, packetByteSize) == window + packetByteSize

\* The window after an acknowledgement outside recovery.
WindowAfterAck(window, threshold, packetByteSize) ==
    IF LessThan(window, threshold)
    THEN window + packetByteSize
    ELSE window + ((DEFAULT_MSS * packetByteSize) \div window)

\* PACKET_ACKED for the packet sent with number pn: onPacketAcked(ackedPacket)
onPacketAcked(pn) ==
    /\ pn \in DOMAIN sentPackets
    /\ events' = events + 1
    /\ ackedPackets' = ackedPackets \cup {pn}
    /\ eventsOnce' = (eventsOnce /\ pn \notin (ackedPackets \cup lostPackets))
    /\ LET p == sentPackets[pn]
       IN  IF AckIgnored(p)
           THEN /\ UNCHANGED <<bytesInFlight, congestionWindow, packetsQueue,
                               nextPacketNumber, sentPackets>>
           ELSE IF inRecovery(pn, endOfRecovery)
           THEN /\ bytesInFlight' = bytesInFlight - p.size
                /\ UNCHANGED <<congestionWindow, packetsQueue, nextPacketNumber, sentPackets>>
           ELSE LET window == WindowAfterAck(congestionWindow, sshtresh, p.size)
                IN  /\ congestionWindow' = window
                    /\ Sent(sendPackets([SenderState EXCEPT !.bif = bytesInFlight - p.size],
                                        window))
    /\ UNCHANGED <<endOfRecovery, sshtresh, lostPackets, sentAtLoss>>
    /\ UNCHANGED <<phVars, smVars, alarmVars, pnVars>>

RECURSIVE SumOfSizes(_, _)
\* The sum of the sizes of the packets of `sent` whose numbers are in S.
SumOfSizes(S, sent) ==
    IF S = {} THEN 0
    ELSE LET pn == CHOOSE x \in S : TRUE
         IN  sent[pn].size + SumOfSizes(S \ {pn}, sent)

\* The lost packets onPacketsLost accounts for.
Counted(lost) == {pn \in lost : ~sentPackets[pn].ackOnly}

LargestLost_AckOnlyToo(lost) ==
    Max(0, CHOOSE pn \in lost : \A other \in lost : other <= pn)

\* largestLost after the forEach of onPacketsLost.
LargestLost(lost) ==
    IF Counted(lost) = {} THEN 0
    ELSE Max(0, CHOOSE pn \in Counted(lost) : \A other \in Counted(lost) : other <= pn)

\* The window of a new recovery epoch.
WindowAfterLoss_NoMinimum(window) == MultiplyLossReduction(window)

WindowAfterLoss(window) == Max(MultiplyLossReduction(window), MINIMUM_WINDOW)

\* PACKETS_LOST for the packets sent with the numbers in lost: onPacketsLost(lostPackets)
onPacketsLost(lost) ==
    /\ lost # {}
    /\ lost \subseteq DOMAIN sentPackets
    /\ events' = events + 1
    /\ lostPackets' = lostPackets \cup lost
    /\ eventsOnce' = (eventsOnce /\ lost \cap (ackedPackets \cup lostPackets) = {})
    /\ LET bif == bytesInFlight - SumOfSizes(Counted(lost), sentPackets)
           largestLost == LargestLost(lost)
           newEpoch == ~inRecovery(largestLost, endOfRecovery)
           window == IF newEpoch THEN WindowAfterLoss(congestionWindow) ELSE congestionWindow
       IN  /\ endOfRecovery' = IF newEpoch THEN largestLost ELSE endOfRecovery
           /\ congestionWindow' = window
           /\ sshtresh' = IF newEpoch THEN window ELSE sshtresh
           /\ sentAtLoss' = IF newEpoch THEN Cardinality(DOMAIN sentPackets) ELSE sentAtLoss
           /\ Sent(sendPackets([SenderState EXCEPT !.bif = bif], window))
    /\ UNCHANGED ackedPackets
    /\ UNCHANGED <<phVars, smVars, alarmVars, pnVars>>

\* RETRANSMISSION_TIMEOUT_VERIFIED: onRetransmissionTimeoutVerified()
WindowAfterTimeout_Initial == INITIAL_WINDOW

\* The window a verified retransmission timeout leaves.
WindowAfterTimeout == MINIMUM_WINDOW

onRetransmissionTimeoutVerified ==
    /\ congestionWindow' = WindowAfterTimeout
    /\ UNCHANGED <<bytesInFlight, endOfRecovery, sshtresh, packetsQueue, nextPacketNumber,
                   sentPackets, ackedPackets, lostPackets, eventsOnce, events, sentAtLoss>>
    /\ UNCHANGED <<phVars, smVars, alarmVars, pnVars>>

(***************************************************************************)
(* StreamManager                                                           *)
(***************************************************************************)
\* StreamType: the low two bits of a stream ID.
StreamTypes == 0 .. 3

\* The stream IDs callers ask for.
StreamIDs == 0 .. MaxStreamID

\* `undefined` where a Stream is expected.
NoStream == [id |-> -1, serial |-> 0]

\* new Stream(endpointType, streamId): an object of its own.
NewStream(streamId) == [id |-> streamId, serial |-> Len(constructed) + 1]

\* The Stream objects constructed so far.
Streams == {[id |-> constructed[k], serial |-> k] : k \in DOMAIN constructed}

\* _getStream(streamId) on the list: the last stream with that ID.
getStreamOrUndefined(list, streamId) ==
    LET hits == {i \in DOMAIN list : list[i].id = streamId}
    IN  IF hits = {} THEN NoStream
        ELSE list[CHOOSE i \in hits : \A j \in hits : j <= i]

hasStream(streamId) == getStreamOrUndefined(streams, streamId) # NoStream

\* addStream(stream): the list afterwards.
addStream_Always(list, stream) == Append(list, stream)

addStream(list, stream) ==
    IF getStreamOrUndefined(list, stream.id) = NoStream THEN Append(list, stream) ELSE list

\* this.streams.indexOf(stream), 0 when the object is not in the list.
indexOf(list, stream) ==
    IF \E i \in DOMAIN list : list[i] = stream
    THEN CHOOSE i \in DOMAIN list : list[i] = stream /\ \A j \in 1 .. (i - 1) : list[j] # stream
    ELSE 0

\* this.streams.splice(index, 1)
splice(list, index) == SubSeq(list, 1, index - 1) \o SubSeq(list, index + 1, Len(list))

\* getStream(streamId), with initializeStream for a stream that is not there.
getStream_Recreate(streamId) ==
    /\ streams' = addStream(streams, NewStream(streamId))
    /\ constructed' = Append(constructed, streamId)
    /\ initialized' = initialized + 1
    /\ returned' = NewStream(streamId)
    /\ UNCHANGED <<phVars, ccVars, alarmVars, pnVars>>

getStream(streamId) ==
    /\ LET stream == getStreamOrUndefined(streams, streamId)
       IN  IF stream = NoStream
           THEN /\ streams' = addStream(streams, NewStream(streamId))
                /\ constructed' = Append(constructed, streamId)
                /\ initialized' = initialized + 1
                /\ returned' = NewStream(streamId)
           ELSE /\ returned' = stream
                /\ UNCHANGED <<streams, constructed, initialized>>
    /\ UNCHANGED <<phVars, ccVars, alarmVars, pnVars>>

\* The public addStream(stream), for a stream the caller constructs or one
\* it got before.
addStreamCalled(stream) ==
    /\ streams' = addStream(streams, stream)
    /\ constructed' = IF stream \in Streams THEN constructed ELSE Append(constructed, stream.id)
    /\ UNCHANGED <<initialized, returned>>
    /\ UNCHANGED <<phVars, ccVars, alarmVars, pnVars>>

\* deleteStream(obj): obj is a stream ID, [bignum |-> id], or a Stream.
deleteStream(obj) ==
    /\ LET stream == IF "bignum" \in DOMAIN obj
                     THEN getStreamOrUndefined(streams, obj.bignum)
                     ELSE obj
           index == indexOf(streams, stream)
       IN  streams' = IF stream # NoStream /\ index > 0 THEN splice(streams, index) ELSE streams
    /\ UNCHANGED <<constructed, initialized, returned>>
    /\ UNCHANGED <<phVars, ccVars, alarmVars, pnVars>>

RECURSIVE FirstAbsent(_, _)
\* The first loop of getNextStream: next goes up by 4 while a stream has that ID.
FirstAbsent(list, next) ==
    IF getStreamOrUndefined(list, next) # NoStream THEN FirstAbsent(list, next + 4) ELSE next

\* The second loop of getNextStream.
Reduced_ToZero(next) == IF next > 4 THEN 0 ELSE next

RECURSIVE Reduced(_)
\* The second loop of getNextStream: next goes down by 4 while it is above 4.
Reduced(next) == IF next > 4 THEN Reduced(next - 4) ELSE next

\* The ID getNextStream(streamType) passes to getStream.
NextStreamID(streamType) == Reduced(FirstAbsent(streams, streamType))

getNextStream(streamType) == getStream(NextStreamID(streamType))

(***************************************************************************)
(* Alarm                                                                   *)
(***************************************************************************)
\* The delays callers pass to start, in milliseconds.
TimesInMs == 1 .. MaxTimeInMs

\* global.setTimeout(callback, timeInMs): the runtime's timers afterwards; the
\* new timer has the handle `id`.
setTimeout(timers, id, timeInMs) == (id :> now + timeInMs) @@ timers

\* clearTimeout(timer): the runtime's timers afterwards.
clearTimeout_Ignored(timers, id) == timers

clearTimeout(timers, id) == [h \in DOMAIN timers \ {id} |-> timers[h]]

isRunning == running

\* reset()
reset_Toggle ==
    /\ alarmCall' = [op |-> "reset", wasRunning |-> isRunning]
    /\ running' = ~running
    /\ pendingTimers' = clearTimeout(pendingTimers, timer)
    /\ resetTimers' = resetTimers \cup ({timer} \cap DOMAIN pendingTimers)
    /\ UNCHANGED <<timer, now, timeouts>>
    /\ UNCHANGED <<phVars, ccVars, smVars, pnVars>>

reset ==
    /\ alarmCall' = [op |-> "reset", wasRunning |-> isRunning]
    /\ IF ~isRunning
       THEN UNCHANGED <<running, pendingTimers, resetTimers>>
       ELSE /\ running' = FALSE
            /\ pendingTimers' = clearTimeout(pendingTimers, timer)
            /\ resetTimers' = resetTimers \cup ({timer} \cap DOMAIN pendingTimers)
    /\ UNCHANGED <<timer, now, timeouts>>
    /\ UNCHANGED <<phVars, ccVars, smVars, pnVars>>

\* start(timeInMs)
start_Rearm(timeInMs) ==
    /\ alarmCall' = [op |-> "start", wasRunning |-> isRunning]
    /\ running' = TRUE
    /\ timer' = timer + 1
    /\ pendingTimers' = setTimeout(pendingTimers, timer + 1, timeInMs)
    /\ UNCHANGED <<now, timeouts, resetTimers>>
    /\ UNCHANGED <<phVars, ccVars, smVars, pnVars>>

start(timeInMs) ==
    /\ alarmCall' = [op |-> "start", wasRunning |-> isRunning]
    /\ IF isRunning
       THEN UNCHANGED <<running, timer, pendingTimers>>
       ELSE /\ running' = TRUE
            /\ timer' = timer + 1
            /\ pendingTimers' = setTimeout(pendingTimers, timer + 1, timeInMs)
    /\ UNCHANGED <<now, timeouts, resetTimers>>
    /\ UNCHANGED <<phVars, ccVars, smVars, pnVars>>

\* The runtime runs the callback of the timer `id`, which is due: onTimeout()
onTimeout_Silent(id) ==
    /\ id \in DOMAIN pendingTimers
    /\ pendingTimers[id] <= now
    /\ alarmCall' = [op |-> "onTimeout", wasRunning |-> isRunning]
    /\ pendingTimers' = clearTimeout(pendingTimers, id)
    /\ running' = FALSE
    /\ UNCHANGED <<timer, now, timeouts, resetTimers>>
    /\ UNCHANGED <<phVars, ccVars, smVars, pnVars>>

onTimeout(id) ==
    /\ id \in DOMAIN pendingTimers
    /\ pendingTimers[id] <= now
    /\ alarmCall' = [op |-> "onTimeout", wasRunning |-> isRunning]
    /\ pendingTimers' = clearTimeout(pendingTimers, id)
    /\ IF isRunning
       THEN /\ running' = FALSE
            /\ timeouts' = Append(timeouts, id)
       ELSE UNCHANGED <<running, timeouts>>
    /\ UNCHANGED <<timer, now, resetTimers>>
    /\ UNCHANGED <<phVars, ccVars, smVars, pnVars>>

\* A millisecond passes; the runtime has run the callbacks that were due.
Tick ==
    /\ \A id \in DOMAIN pendingTimers : pendingTimers[id] > now
    /\ now' = now + 1
    /\ alarmCall' = [op |-> "tick", wasRunning |-> isRunning]
    /\ UNCHANGED <<running, timer, pendingTimers, timeouts, resetTimers>>
    /\ UNCHANGED <<phVars, ccVars, smVars, pnVars>>

(***************************************************************************)
(* PacketNumber                                                            *)
(***************************************************************************)
\* A Bignum is kept as two limbs, [hi, lo] with 0 <= lo < Limb: its value is
\* hi * Limb + lo. A negative Bignum has a negative hi.
Limb == 2 ^ 16

Bignum(hi, lo) == [hi |-> hi + (lo \div Limb), lo |-> lo % Limb]

\* Bignum.add, Bignum.subtract, Bignum.lessThanOrEqual, Bignum.greaterThan
add(a, b) == Bignum(a.hi + b.hi, a.lo + b.lo)

subtract(a, b) == Bignum(a.hi - b.hi, a.lo - b.lo)

lessThanOrEqual(a, b) == a.hi < b.hi \/ (a.hi = b.hi /\ a.lo <= b.lo)

greaterThan(a, b) == ~lessThanOrEqual(a, b)

\* new Bignum(1).shiftLeft(bits)
shiftLeft(bits) == IF bits < 16 THEN Bignum(0, 2 ^ bits) ELSE Bignum(2 ^ (bits - 16), 0)

\* Bignum.divide(2), of an even number
divide(a) == Bignum(a.hi \div 2, (a.lo \div 2) + (a.hi % 2) * (Limb \div 2))

\* The bits of the limb v at the positions of `bits`, in place.
BitsOf(v, bits) == v - (v % (2 ^ bits))

\* pnMask after the loop of adjustNumber: bit 63 from the initial 1, and bit
\* 62 - i for every i of 0..62 with 63 - i > size * 8.
pnMaskBits(size) == {63} \cup {62 - i : i \in {j \in 0 .. 62 : 63 - j > size * 8}}

\* The lowest bit of pnMask: every bit from there up to bit 63 is set.
LowestMaskBit(size) == CHOOSE b \in pnMaskBits(size) : \A other \in pnMaskBits(size) : b <= other

\* expectedPn.and(pnMask), for a number below 2^64
and(a, size) ==
    LET low == LowestMaskBit(size)
    IN  IF low < 16 THEN Bignum(a.hi, BitsOf(a.lo, low)) ELSE Bignum(BitsOf(a.hi, low - 16), 0)

\* Bignum.mask(size): the `size` least significant bytes.
mask(a, size) ==
    IF size * 8 < 16 THEN Bignum(0, a.lo % (2 ^ (size * 8)))
    ELSE Bignum(a.hi % (2 ^ (size * 8 - 16)), a.lo)

\* getLeastSignificantBytes(size): bytes 8 - size .. 7 of the 8-byte buffer.
getLeastSignificantBytes(a, size) == mask(a, size)

getBitSize(size) == IF size = 1 THEN 7 ELSE IF size = 2 THEN 14 ELSE 30

\* adjustNumber(packetNumber, size) on the PacketNumber holding `value`.
adjustNumber(value, packetNumber, size) ==
    LET expectedPn == add(value, Bignum(0, 1))
        pnWin == shiftLeft(getBitSize(size))
        pnHWin == divide(pnWin)
        maskedResult == and(expectedPn, size)
        candidatePn == add(mask(packetNumber, size), maskedResult)
    IN  IF lessThanOrEqual(candidatePn, subtract(expectedPn, pnHWin))
        THEN add(candidatePn, pnWin)
        ELSE IF greaterThan(candidatePn, add(expectedPn, pnHWin))
                /\ greaterThan(candidatePn, pnWin)
        THEN subtract(candidatePn, pnWin)
        ELSE candidatePn

\* The sizes of a truncated packet number, in bytes.
Sizes == {1, 2, 4}

\* The largest packet numbers a receiver holds: small ones, ones around the
\* ends of the 1-, 2- and 4-byte ranges, and the one of the draft's example.
LargestNumbers ==
    {Bignum(0, v) : v \in 0 .. MaxLargest}
        \cup {Bignum(0, 2 ^ k + d) : k \in {6, 7, 8, 14, 15}, d \in {-2, -1, 0}}
        \cup {Bignum(1, 0), Bignum(2 ^ 14, 0), Bignum(2 ^ 16 - 1, Limb - 2)}
        \cup {Bignum(43055, 12522)}

\* How far from the expected number the numbers a peer sends are.
Offsets ==
    {Bignum(0, d) : d \in (0 - MaxOffset) .. MaxOffset}
        \cup {Bignum(0, s * (2 ^ k + d)) : k \in {6, 7, 13, 14, 15}, d \in {-1, 0, 1}, s \in {-1, 1}}
        \cup {Bignum(s * (2 ^ k), d) : k \in {13, 14, 15}, d \in {-1, 0, 1}, s \in {-1, 1}}

\* The packet numbers a peer sends to a receiver whose largest is `value`.
SentNumbers(value) ==
    {pn \in {add(add(value, Bignum(0, 1)), d) : d \in Offsets} \cup {Bignum(43055, 39730)} :
        pn.hi >= 0}

\* setValue(bignum): the receiver has seen the packet number bignum. Nothing
\* has been adjusted against the new value yet.
setValue(bignum) ==
    /\ largestPn' = bignum
    /\ sentPn' = Bignum(0, 0)
    /\ pnSize' = 0
    /\ truncatedPn' = Bignum(0, 0)
    /\ adjustedPn' = Bignum(0, 0)
    /\ UNCHANGED <<phVars, ccVars, smVars, alarmVars>>

\* A packet arrives that was sent with the number `sent` in `size` bytes:
\* new PacketNumber(largest).adjustNumber(new PacketNumber(truncated), size)
receive(sent, size) ==
    /\ sentPn' = sent
    /\ pnSize' = size
    /\ truncatedPn' = getLeastSignificantBytes(sent, size)
    /\ adjustedPn' = adjustNumber(largestPn, getLeastSignificantBytes(sent, size), size)
    /\ UNCHANGED largestPn
    /\ UNCHANGED <<phVars, ccVars, smVars, alarmVars>>

(***************************************************************************)
(* Specifications                                                          *)
(***************************************************************************)
\* new PacketHandler(); the connection as the client or the server creates it.
InitConnection ==
    /\ connection \in [endpointType : {"Client", "Server"},
                       destConnectionID : {Undefined},
                       retrySent : {FALSE},
                       version : VersionValues,
                       initialVersion : VersionValues,
                       initialDestConnectionID : {1},
                       srcConnectionID : {2}]
    /\ connection.version = connection.initialVersion
    /\ packet = NoPacket
    /\ calls = << >>
    /\ error = "none"
    /\ retryWrites = 0
    /\ handshakeWrites = 0
    /\ resetConnections = 0
    /\ retrySeen = FALSE

\* new CongestionControl(connection, lossDetection), on a connection whose
\* first packet will carry the number `first`.
FreshController(first) ==
    /\ congestionWindow = INITIAL_WINDOW
    /\ bytesInFlight = 0
    /\ endOfRecovery = 0
    /\ sshtresh = Infinity
    /\ packetsQueue = << >>
    /\ nextPacketNumber = first
    /\ sentPackets = << >>
    /\ ackedPackets = {}
    /\ lostPackets = {}
    /\ eventsOnce = TRUE
    /\ events = 0
    /\ sentAtLoss = 0

InitCongestionControl == FreshController(0)

\* new StreamManager(endpointType)
InitStreamManager ==
    /\ streams = << >>
    /\ constructed = << >>
    /\ initialized = 0
    /\ returned = NoStream

\* new Alarm()
InitAlarm ==
    /\ running = FALSE
    /\ timer = 0
    /\ pendingTimers = << >>
    /\ now = 0
    /\ timeouts = << >>
    /\ resetTimers = {}
    /\ alarmCall = [op |-> "none", wasRunning |-> FALSE]

\* new PacketNumber(0), before any packet
InitPacketNumber ==
    /\ largestPn = Bignum(0, 0)
    /\ sentPn = Bignum(0, 0)
    /\ pnSize = 0
    /\ truncatedPn = Bignum(0, 0)
    /\ adjustedPn = Bignum(0, 0)

\* A client or a server connection with its controller, stream manager, alarm
\* and packet number.
Init ==
    /\ InitConnection
    /\ InitCongestionControl
    /\ InitStreamManager
    /\ InitAlarm
    /\ InitPacketNumber

\* The controller of one client connection.
InitController ==
    /\ Init
    /\ connection.endpointType = "Client"
    /\ connection.initialVersion = 9

NextPacketHandler == \E p \in Packets : handle(p)

NextCongestionControl ==
    \/ \E packets \in SeqsUpTo(QueuedPackets, 2) \ {<< >>} :
          Created + Len(packets) <= MaxPackets /\ queuePackets(packets)
    \/ \E pn \in DOMAIN sentPackets : events < MaxEvents /\ onPacketAcked(pn)
    \/ \E lost \in SUBSET (DOMAIN sentPackets) : events < MaxEvents /\ onPacketsLost(lost)
    \/ onRetransmissionTimeoutVerified

\* The scenario of a bulk transfer: ScenarioPackets full packets are queued at
\* once, the first ScenarioAcked of them are acknowledged in some order, packet
\* number ScenarioLost is declared lost, and the other packets are acknowledged.
InitScenario ==
    /\ InitConnection
    /\ connection.endpointType = "Client"
    /\ connection.initialVersion = 9
    /\ \E first \in {0, 1} : FreshController(first)
    /\ InitStreamManager
    /\ InitAlarm
    /\ InitPacketNumber

FullPackets == [i \in 1 .. ScenarioPackets |-> [size |-> DEFAULT_MSS, ackOnly |-> FALSE]]

\* The numbers of the first ScenarioAcked packets sent.
FirstSent == {pn \in DOMAIN sentPackets :
                Cardinality({m \in DOMAIN sentPackets : m < pn}) < ScenarioAcked}

ScenarioSend == Created = 0 /\ queuePackets(FullPackets)

ScenarioAckFirst ==
    /\ lostPackets = {}
    /\ \E pn \in FirstSent \ ackedPackets : onPacketAcked(pn)

ScenarioLoss ==
    /\ lostPackets = {}
    /\ Cardinality(ackedPackets) = ScenarioAcked
    /\ ScenarioLost \in DOMAIN sentPackets
    /\ onPacketsLost({ScenarioLost})

ScenarioAckLater ==
    /\ lostPackets # {}
    /\ \E pn \in DOMAIN sentPackets \ (ackedPackets \cup lostPackets) : onPacketAcked(pn)

NextStreamManager ==
    \/ \E streamId \in StreamIDs :
          (Len(constructed) < MaxStreams \/ hasStream(streamId)) /\ getStream(streamId)
    \/ \E stream \in Streams \cup {NewStream(streamId) : streamId \in StreamIDs} :
          (Len(constructed) < MaxStreams \/ stream \in Streams) /\ addStreamCalled(stream)
    \/ \E obj \in Streams \cup {[bignum |-> streamId] : streamId \in StreamIDs} :
          deleteStream(obj)
    \/ \E streamType \in StreamTypes :
          (Len(constructed) < MaxStreams \/ hasStream(NextStreamID(streamType)))
              /\ getNextStream(streamType)

NextAlarm ==
    \/ \E timeInMs \in TimesInMs : (timer < MaxTimers \/ isRunning) /\ start(timeInMs)
    \/ reset
    \/ \E id \in DOMAIN pendingTimers : onTimeout(id)
    \/ now < MaxNow /\ Tick

\* The alarm with a clock that runs up to MaxNow: a timer is started only
\* when its deadline is one the clock reaches.
NextAlarmLive ==
    \/ \E timeInMs \in TimesInMs :
          /\ timer < MaxTimers \/ isRunning
          /\ now + timeInMs <= MaxNow
          /\ start(timeInMs)
    \/ reset
    \/ \E id \in DOMAIN pendingTimers : onTimeout(id)
    \/ now < MaxNow /\ Tick

NextPacketNumber ==
    \/ \E bignum \in LargestNumbers : setValue(bignum)
    \/ \E sent \in SentNumbers(largestPn), size \in Sizes : receive(sent, size)

NextScenario == ScenarioSend \/ ScenarioAckFirst \/ ScenarioLoss \/ ScenarioAckLater

\* The packet handler of one connection, fed arbitrary packets.
SpecPacketHandler == Init /\ [][NextPacketHandler]_vars

\* The congestion controller of one connection, fed arbitrary events.
SpecCongestionControl == InitController /\ [][NextCongestionControl]_vars

\* The stream manager of one connection, called in any order.
SpecStreamManager == InitController /\ [][NextStreamManager]_vars

\* The alarm of one connection, with the runtime's clock and timers.
SpecAlarm == InitController /\ [][NextAlarm]_vars

\* The alarm under a runtime that lets time pass and runs the callback of
\* every timer that is due.
SpecAlarmLive ==
    /\ InitController
    /\ [][NextAlarmLive]_vars
    /\ WF_vars(now < MaxNow /\ Tick)
    /\ WF_vars(\E id \in DOMAIN pendingTimers : onTimeout(id))

\* A receiver's packet number, fed truncated packet numbers.
SpecPacketNumber == InitController /\ [][NextPacketNumber]_vars

\* The congestion controller of one connection in the bulk-transfer scenario.
SpecScenario == InitScenario /\ [][NextScenario]_vars

(***************************************************************************)
(* Properties of PacketHandler, under SpecPacketHandler                    *)
(***************************************************************************)
IsClient == connection.endpointType = "Client"

\* handle() passed a frame of the last packet to the frame handler.
FrameHandled == \E i \in 1..Len(calls) : calls[i].call = "frameHandler.handle"

\* handle() called connection.resetConnection for the last packet.
ResetConnectionCalled == \E i \in 1..Len(calls) : calls[i].call = "resetConnection"

\* handle() called connection.resetConnectionState for the last packet.
ResetStateCalled == \E i \in 1..Len(calls) : calls[i].call = "resetConnectionState"

\* The last packet was dropped with IGNORE_PACKET_ERROR and left no trace
\* on the connection; stated of the step that handled it.
Ignored ==
    /\ error' = "IGNORE_PACKET_ERROR"
    /\ ~FrameHandled'
    /\ ~ResetConnectionCalled'
    /\ ~ResetStateCalled'
    /\ connection' = connection
    /\ resetConnections' = resetConnections

\* The versions of a list that this endpoint supports.
Supported(versions) ==
    {versions[i] : i \in {j \in 1..Len(versions) : VersionToString(versions[j]) \in SUPPORTED_VERSIONS}}

\* The version resetConnection was called with for the last packet.
ResetVersion == calls[CHOOSE i \in 1..Len(calls) : calls[i].call = "resetConnection"].arg

\* C1: on a client, once a Handshake packet has written the destination
\* connection ID, every later Handshake packet with another source connection
\* ID is dropped with IGNORE_PACKET_ERROR: no frame of it is handled, the
\* destination ID and retrySent stay as they were, and the connection is not reset.
C1_LaterHandshakeIgnored ==
    [][(IsClient /\ handshakeWrites > 0 /\ packet'.type = "Handshake"
          /\ packet'.srcConnectionID # connection.destConnectionID)
       => Ignored]_vars

C1_Witness ==
    /\ IsClient
    /\ handshakeWrites > 0
    /\ packet.type = "Handshake"
    /\ packet.frames # << >>
    /\ packet.srcConnectionID # connection.destConnectionID
    /\ error = "IGNORE_PACKET_ERROR"

\* C2: the destination connection ID is written at most once by a Retry
\* packet and at most once by a Handshake packet, and never again once a
\* Handshake packet has written it.
C2_DestIDWrittenOncePerKind ==
    [][/\ retryWrites' <= 1
       /\ handshakeWrites' <= 1
       /\ handshakeWrites > 0 =>
             /\ retryWrites' = retryWrites
             /\ handshakeWrites' = handshakeWrites
             /\ connection'.destConnectionID = connection.destConnectionID]_vars

C2_Witness ==
    /\ IsClient
    /\ retryWrites = 1
    /\ handshakeWrites = 1
    /\ packet.type \in {"Retry", "Handshake"}
    /\ packet.srcConnectionID # connection.destConnectionID
    /\ error = "IGNORE_PACKET_ERROR"

\* C3 as claimed: on a client the first Retry packet sets the destination
\* connection ID to its source connection ID and sets retrySent, and any
\* later Retry packet with a source connection ID other than the current
\* destination ID is ignored.
C3_Original ==
    [][(IsClient /\ packet'.type = "Retry") =>
          /\ ~retrySeen' =>
                /\ connection'.destConnectionID = packet'.srcConnectionID
                /\ connection'.retrySent
          /\ (retrySeen' /\ packet'.srcConnectionID # connection.destConnectionID) => Ignored]_vars

\* C3 as amended: on a client a Retry packet that arrives while the
\* destination connection ID is still unset sets it to the packet's source
\* connection ID and sets retrySent; a Retry packet that arrives once the
\* destination ID is set, with another source connection ID, is ignored.
C3_RetryWritesOnlyUnsetDestID ==
    [][(IsClient /\ packet'.type = "Retry") =>
          /\ connection.destConnectionID = Undefined =>
                /\ connection'.destConnectionID = packet'.srcConnectionID
                /\ connection'.retrySent
                /\ error' = "none"
          /\ (connection.destConnectionID # Undefined
                /\ packet'.srcConnectionID # connection.destConnectionID) => Ignored]_vars

C3_Witness ==
    /\ IsClient
    /\ retrySeen
    /\ retryWrites = 1
    /\ connection.retrySent
    /\ packet.type = "Retry"
    /\ packet.frames # << >>
    /\ packet.srcConnectionID # connection.destConnectionID
    /\ error = "IGNORE_PACKET_ERROR"

\* C4: at most one Version Negotiation packet resets the connection; once
\* the connection's version differs from its initial version, a Version
\* Negotiation packet returns without changing the connection.
C4_OnlyFirstVersionNegotiationHonored ==
    [][/\ resetConnections' <= 1
       /\ (packet'.type = "VersionNegotiation"
             /\ VersionToString(connection.version) # VersionToString(connection.initialVersion))
          => /\ connection' = connection
             /\ resetConnections' = resetConnections
             /\ ~ResetConnectionCalled'
             /\ error' = "none"]_vars

\* A second packet that the handler would have honored had it been the first.
C4_Witness ==
    /\ resetConnections = 1
    /\ connection.version # connection.initialVersion
    /\ packet.type = "VersionNegotiation"
    /\ packet.srcConnectionID = connection.initialDestConnectionID
    /\ packet.destConnectionID = connection.srcConnectionID
    /\ ~containsChosenVersion(connection, packet)
    /\ Supported(packet.versions) \ {connection.version} # {}
    /\ ~ResetConnectionCalled

\* C5: a Version Negotiation packet that lists the client's initial version
\* does not reset the connection and leaves its version unchanged.
C5_ChosenVersionListedIgnored ==
    [][(packet'.type = "VersionNegotiation" /\ containsChosenVersion(connection, packet'))
       => /\ ~ResetConnectionCalled'
          /\ resetConnections' = resetConnections
          /\ connection'.version = connection.version]_vars

\* A first packet with the right connection IDs that lists the chosen version
\* and another, supported, one.
C5_Witness ==
    /\ resetConnections = 0
    /\ packet.type = "VersionNegotiation"
    /\ packet.srcConnectionID = connection.initialDestConnectionID
    /\ packet.destConnectionID = connection.srcConnectionID
    /\ containsChosenVersion(connection, packet)
    /\ Supported(packet.versions) \ {connection.initialVersion} # {}
    /\ error = "none"
    /\ connection.version = connection.initialVersion

\* C6: the version resetConnection is called with is listed by the packet,
\* is supported, and no listed supported version has a greater string.
C6_GreatestCommonVersion ==
    ResetConnectionCalled =>
        /\ ResetVersion \in Supported(packet.versions)
        /\ \A v \in Supported(packet.versions) :
              ~StringGreater(VersionToString(v), VersionToString(ResetVersion))

\* The packet lists the greatest version first and a smaller one after it.
C6_Witness ==
    /\ ResetConnectionCalled
    /\ Len(packet.versions) = 2
    /\ Cardinality(Supported(packet.versions)) = 2
    /\ ResetVersion = packet.versions[1]

\* C7: a Version Negotiation packet that arrives before any was honored,
\* with a source connection ID other than the initial destination ID or a
\* destination connection ID other than the connection's source ID, raises
\* VERSION_NEGOTIATION_ERROR and leaves the connection as it was.
C7_WrongConnectionIDsRejected ==
    [][(packet'.type = "VersionNegotiation"
          /\ VersionToString(connection.version) = VersionToString(connection.initialVersion)
          /\ (packet'.srcConnectionID # connection.initialDestConnectionID
                \/ packet'.destConnectionID # connection.srcConnectionID))
       => /\ error' = "VERSION_NEGOTIATION_ERROR"
          /\ ~ResetConnectionCalled'
          /\ resetConnections' = resetConnections
          /\ connection' = connection]_vars

\* Only the destination connection ID is wrong, and the list would be honored.
C7_Witness ==
    /\ packet.type = "VersionNegotiation"
    /\ packet.srcConnectionID = connection.initialDestConnectionID
    /\ packet.destConnectionID # connection.srcConnectionID
    /\ ~containsChosenVersion(connection, packet)
    /\ Supported(packet.versions) # {}
    /\ error = "VERSION_NEGOTIATION_ERROR"
    /\ connection.version = connection.initialVersion

(***************************************************************************)
(* Properties of CongestionControl, under SpecCongestionControl            *)
(***************************************************************************)
\* The packets that were sent, are not ack-only and were not acknowledged.
UnackedInFlight == {pn \in DOMAIN sentPackets : ~sentPackets[pn].ackOnly /\ pn \notin ackedPackets}

\* C8: the congestion window never falls below two maximum segment sizes.
C8_WindowAtLeastMinimum == congestionWindow >= 2 * DEFAULT_MSS

\* A loss started a recovery epoch with the window already at its minimum.
C8_Witness ==
    /\ endOfRecovery > 0
    /\ sshtresh = 2 * DEFAULT_MSS
    /\ congestionWindow = 2 * DEFAULT_MSS

C10_AtMostUnackedBytes == bytesInFlight <= SumOfSizes(UnackedInFlight, sentPackets)

\* Packets of every kind were sent, one was acknowledged, and the bound is met.
C10_Witness ==
    /\ \E pn \in DOMAIN sentPackets : sentPackets[pn].ackOnly
    /\ \E pn \in ackedPackets : ~sentPackets[pn].ackOnly
    /\ bytesInFlight > 0
    /\ bytesInFlight = SumOfSizes(UnackedInFlight, sentPackets)

\* The numbers of the packets sendPackets sent in a step, and bytesInFlight as it
\* stood when the loop tested it before sending packet number n of them.
SentInStep == nextPacketNumber .. (nextPacketNumber' - 1)

BytesInFlightBefore(n) ==
    bytesInFlight' - SumOfSizes({m \in n .. (nextPacketNumber' - 1) : ~sentPackets'[m].ackOnly},
                                sentPackets')

\* A step that delivers no loss-detection event and leaves the window alone:
\* queuePackets, or a retransmission timeout with the window at its minimum.
QueueStep == events' = events /\ congestionWindow' = congestionWindow

\* C11: sendPackets takes a packet off the queue and hands it to the socket
\* only when bytesInFlight, as it stood before that packet was sent, is below
\* congestionWindow; while bytesInFlight >= congestionWindow no queued packet
\* leaves the queue.
C11_SentOnlyBelowWindow ==
    [][/\ \A n \in SentInStep : BytesInFlightBefore(n) < congestionWindow'
       /\ Created' >= Created
       /\ (QueueStep /\ bytesInFlight >= congestionWindow) =>
              /\ sentPackets' = sentPackets
              /\ Len(packetsQueue') >= Len(packetsQueue)
              /\ SubSeq(packetsQueue', 1, Len(packetsQueue)) = packetsQueue]_vars

\* Packets were sent until the window was full and another one waits in the queue.
C11_Witness ==
    /\ sentPackets # << >>
    /\ bytesInFlight >= congestionWindow
    /\ packetsQueue # << >>

\* The sizes that count for bytesInFlight among the packets numbered in S.
BytesOf(S, sent) == SumOfSizes({pn \in S : ~sent[pn].ackOnly}, sent)

\* The bytes of the packets sendPackets sent in a step.
BytesSentInStep == BytesOf(SentInStep, sentPackets')

Largest(S) == CHOOSE pn \in S : \A other \in S : other <= pn

\* The largest number among the lost packets that are not ack-only, 0 without one.
LargestCountedLost(lost) ==
    LET counted == {pn \in lost : ~sentPackets[pn].ackOnly}
    IN  IF counted = {} THEN 0 ELSE Largest(counted)

HalvedWindow == IF congestionWindow \div 2 > 2 * DEFAULT_MSS
                THEN congestionWindow \div 2 ELSE 2 * DEFAULT_MSS

\* What a packets-lost event does to the window when `largest` is taken as the
\* largest lost packet number.
LossEffect(largest) ==
    IF largest > endOfRecovery
    THEN /\ endOfRecovery' = largest
         /\ congestionWindow' = HalvedWindow
         /\ sshtresh' = congestionWindow'
    ELSE UNCHANGED <<congestionWindow, sshtresh, endOfRecovery>>

\* The sets of packets a packets-lost event can have reported in a step: the
\* packets recorded as lost in it, with any that were reported lost before.
LostInStep == {(lostPackets' \ lostPackets) \cup again : again \in SUBSET lostPackets}

\* C12 as claimed: on a packets-lost event whose largest lost packet number is
\* above endOfRecovery, endOfRecovery becomes that number, congestionWindow
\* becomes max(congestionWindow * 0.5, 2 * DEFAULT_MSS) and ssthresh the new
\* window; otherwise the three are unchanged and bytesInFlight only decreases.
C12_Original ==
    [][\A lost \in LostInStep :
          onPacketsLost(lost) =>
              /\ LossEffect(Largest(lost))
              /\ Largest(lost) <= endOfRecovery => bytesInFlight' <= bytesInFlight]_vars

\* C12 as amended: the largest lost packet number is taken among the lost
\* packets that are not ack-only (0 without one); bytesInFlight loses the sizes
\* of those packets and gains the sizes of the packets the trailing sendPackets
\* sends.
C12_LossStartsEpochOnce ==
    [][\A lost \in LostInStep :
          onPacketsLost(lost) =>
              /\ LossEffect(LargestCountedLost(lost))
              /\ bytesInFlight' = bytesInFlight - BytesOf(lost, sentPackets)
                                     + BytesSentInStep]_vars

\* A loss halved the initial window and a later loss inside that epoch left it alone.
C12_Witness ==
    /\ events = 2
    /\ ackedPackets = {}
    /\ endOfRecovery > 0
    /\ \E pn \in lostPackets : pn < endOfRecovery /\ ~sentPackets[pn].ackOnly
    /\ congestionWindow = INITIAL_WINDOW \div 2
    /\ sshtresh = congestionWindow

\* The acknowledgement of packet pn is one C13 speaks of: the packet is not
\* ack-only and its number is above endOfRecovery.
GrowingAck(pn) ==
    /\ onPacketAcked(pn)
    /\ ~sentPackets[pn].ackOnly
    /\ pn > endOfRecovery

\* The growth C13 states for an acknowledged packet of s bytes.
AckGrowth(s) ==
    IF sshtresh = Infinity \/ congestionWindow < sshtresh
    THEN s
    ELSE (DEFAULT_MSS * s) \div congestionWindow

\* C13 as claimed: the acknowledgement of a packet of s bytes that is not
\* ack-only and has a number above endOfRecovery grows the window by s in slow
\* start and by floor(DEFAULT_MSS * s / congestionWindow) otherwise, takes s off
\* bytesInFlight and leaves ssthresh and endOfRecovery alone.
C13_Original ==
    [][\A pn \in DOMAIN sentPackets :
          GrowingAck(pn) =>
              /\ congestionWindow' = congestionWindow + AckGrowth(sentPackets[pn].size)
              /\ bytesInFlight' = bytesInFlight - sentPackets[pn].size
              /\ UNCHANGED <<sshtresh, endOfRecovery>>]_vars

\* C13 as amended: bytesInFlight loses s and gains the sizes of the packets the
\* trailing sendPackets sends into the window the acknowledgement opened.
C13_AckGrowsWindow ==
    [][\A pn \in DOMAIN sentPackets :
          GrowingAck(pn) =>
              /\ congestionWindow' = congestionWindow + AckGrowth(sentPackets[pn].size)
              /\ bytesInFlight' = bytesInFlight - sentPackets[pn].size + BytesSentInStep
              /\ UNCHANGED <<sshtresh, endOfRecovery>>]_vars

\* A packet sent in the recovery epoch's halved window was acknowledged in
\* congestion avoidance.
C13_Witness ==
    /\ sshtresh = INITIAL_WINDOW \div 2
    /\ congestionWindow = sshtresh + (DEFAULT_MSS * DEFAULT_MSS) \div sshtresh
    /\ \E pn \in ackedPackets : pn > endOfRecovery /\ ~sentPackets[pn].ackOnly

AckOnly(S, sent) == \A pn \in S : sent[pn].ackOnly

\* C14 as claimed: an ack-only packet leaves bytesInFlight, congestionWindow,
\* ssthresh and endOfRecovery as they were when it is sent, when it is
\* acknowledged, and when a packets-lost event holds ack-only packets only.
C14_Original ==
    [][/\ \A packets \in SeqsUpTo(QueuedPackets, 2) :
             (queuePackets(packets) /\ SentInStep # {} /\ AckOnly(SentInStep, sentPackets'))
                 => UNCHANGED <<bytesInFlight, congestionWindow, sshtresh, endOfRecovery>>
       /\ \A pn \in DOMAIN sentPackets :
             (onPacketAcked(pn) /\ sentPackets[pn].ackOnly)
                 => UNCHANGED <<bytesInFlight, congestionWindow, sshtresh, endOfRecovery>>
       /\ \A lost \in SUBSET (DOMAIN sentPackets) :
             (onPacketsLost(lost) /\ AckOnly(lost, sentPackets))
                 => UNCHANGED <<bytesInFlight, congestionWindow, sshtresh, endOfRecovery>>]_vars

\* C15: a verified retransmission timeout sets congestionWindow to exactly
\* 2 * DEFAULT_MSS and leaves bytesInFlight, ssthresh, endOfRecovery and the
\* packet queue as they were.
C15_TimeoutCollapsesWindow ==
    [][onRetransmissionTimeoutVerified =>
          /\ congestionWindow' = 2 * DEFAULT_MSS
          /\ UNCHANGED <<bytesInFlight, sshtresh, endOfRecovery, packetsQueue>>]_vars

\* With no loss so far the window is down at two segments, which only the
\* timeout does, and the packets in flight and in the queue are still there.
C15_Witness ==
    /\ sshtresh = Infinity
    /\ endOfRecovery = 0
    /\ congestionWindow = 2 * DEFAULT_MSS
    /\ bytesInFlight = 2 * DEFAULT_MSS
    /\ Len(packetsQueue) = 2

\* C16 as claimed: once a loss has started a recovery epoch, no acknowledgement
\* of a packet that was sent before that loss was detected grows the window;
\* the window grows again only with the acknowledgement of a packet sent after
\* the loss was detected.
C16_Original ==
    [][\A pn \in DOMAIN sentPackets :
          (onPacketAcked(pn) /\ sshtresh # Infinity /\ pn < sentAtLoss)
              => congestionWindow' <= congestionWindow]_vars

\* ---- The bulk-transfer scenario, under SpecScenario ----
\* The window slow start leaves once the acknowledgements in ackedPackets have
\* arrived: one segment more for every acknowledged packet above endOfRecovery = 0.
SlowStartWindow ==
    INITIAL_WINDOW + DEFAULT_MSS * Cardinality({pn \in ackedPackets : pn > 0})

\* The scenario's later acknowledgements grow the window as in congestion avoidance.
LaterAcksGrow ==
    \A pn \in DOMAIN sentPackets :
        (onPacketAcked(pn) /\ lostPackets # {} /\ pn > ScenarioLost)
            => congestionWindow' = congestionWindow +
                                      (DEFAULT_MSS * sentPackets[pn].size) \div congestionWindow

\* C17 as claimed: from a fresh controller, 20 full packets sent and the first
\* 10 acknowledged bring the window to 24 MSS; the loss of packet 15 then sets
\* window and ssthresh to 12 MSS, and each later acknowledgement outside
\* recovery grows the window by MSS * size / window.
C17_Original ==
    [][/\ onPacketsLost({ScenarioLost}) =>
             /\ congestionWindow = 24 * DEFAULT_MSS
             /\ congestionWindow' = 12 * DEFAULT_MSS
             /\ sshtresh' = 12 * DEFAULT_MSS
       /\ LaterAcksGrow]_vars

\* C17 as amended: the first acknowledgements bring the window to 10 MSS plus
\* one MSS for each acknowledged packet whose number is above 0 (20 MSS for ten
\* of them, 19 MSS when the first packet carries number 0); the loss of packet
\* 15 sets window and ssthresh to half of that, and each later acknowledgement
\* outside recovery grows the window by floor(MSS * size / window).
C17_SlowStartThenHalved ==
    [][/\ onPacketsLost({ScenarioLost}) =>
             /\ Cardinality(ackedPackets) = ScenarioAcked
             /\ congestionWindow = SlowStartWindow
             /\ congestionWindow' = SlowStartWindow \div 2
             /\ sshtresh' = SlowStartWindow \div 2
             /\ endOfRecovery' = ScenarioLost
       /\ LaterAcksGrow]_vars

\* All packets went out, packet ScenarioLost was lost with the window at twenty
\* segments, and a packet above it was acknowledged since.
C17_Witness ==
    /\ Cardinality(DOMAIN sentPackets) = ScenarioPackets
    /\ lostPackets = {ScenarioLost}
    /\ sshtresh = (INITIAL_WINDOW + ScenarioAcked * DEFAULT_MSS) \div 2
    /\ \E pn \in ackedPackets : pn > ScenarioLost
    /\ congestionWindow > sshtresh

\* ---- Under SpecCongestionControl again ----
\* C18: every packet sendPackets transmits gets, when it is sent, the
\* connection's next packet number: the numbers of the transmitted packets
\* rise by exactly one from each packet to the next, and no number is used twice.
C18_ConsecutivePacketNumbers ==
    [][/\ nextPacketNumber' >= nextPacketNumber
       /\ DOMAIN sentPackets' = DOMAIN sentPackets \cup SentInStep
       /\ \A pn \in DOMAIN sentPackets : sentPackets'[pn] = sentPackets[pn]
       /\ Cardinality(SentInStep) + Len(packetsQueue') >= Len(packetsQueue)
       /\ DOMAIN sentPackets' = 0 .. (nextPacketNumber' - 1)]_vars

\* Three packets went out, ack-only ones among them, with the numbers 0, 1 and 2.
C18_Witness ==
    /\ nextPacketNumber = 3
    /\ DOMAIN sentPackets = {0, 1, 2}
    /\ sentPackets[0].ackOnly /\ ~sentPackets[1].ackOnly /\ sentPackets[2].ackOnly
    /\ events = 0

(***************************************************************************)
(* Properties of StreamManager, under SpecStreamManager                    *)
(***************************************************************************)
\* The smallest ID congruent to streamType modulo 4 that no stream of the list has.
SmallestUnused(streamType) ==
    LET unused == {id \in {streamType + 4 * k : k \in 0 .. Len(streams)} :
                      \A i \in DOMAIN streams : streams[i].id # id}
    IN  CHOOSE id \in unused : \A other \in unused : id <= other

\* C19 as claimed: getNextStream(type) returns a stream whose ID is the
\* smallest ID congruent to type modulo 4 that no stream in the manager has;
\* it never returns a stream that was there before the call.
C19_Original ==
    [][\A streamType \in StreamTypes :
          getNextStream(streamType) =>
              /\ returned'.id = SmallestUnused(streamType)
              /\ \A i \in DOMAIN streams : streams[i] # returned']_vars

(***************************************************************************)
(* Properties of Alarm, under SpecAlarm                                    *)
(***************************************************************************)
\* C20: an alarm is single-shot. A start() that takes effect leads to at most
\* one TIMEOUT, after which the alarm is not running; a timer reset() before
\* it fired emits no TIMEOUT at all, also when the alarm is started again.
C20_SingleShot ==
    /\ \A i, j \in DOMAIN timeouts : timeouts[i] = timeouts[j] => i = j
    /\ \A i \in DOMAIN timeouts : timeouts[i] \notin resetTimers
    /\ running => \A i \in DOMAIN timeouts : timeouts[i] # timer
    /\ running => timer \in DOMAIN pendingTimers

\* The first timer was reset, the alarm was started again and that timer fired.
C20_Witness ==
    /\ resetTimers = {1}
    /\ timeouts = <<2>>
    /\ ~running
    /\ pendingTimers = << >>

\* C21: start(t) on a running alarm is a no-op. No second timer is set and the
\* pending deadline stays, so the alarm has one pending timer at most and
\* arming again leads to the one TIMEOUT the first arming leads to.
C21_StartWhileRunningIsNoOp ==
    [][/\ (alarmCall'.op = "start" /\ alarmCall'.wasRunning) =>
              UNCHANGED <<running, timer, pendingTimers, now, timeouts, resetTimers>>
       /\ Cardinality(DOMAIN pendingTimers') <= 1
       /\ running' => DOMAIN pendingTimers' = {timer'}]_vars

\* start was called on the alarm while its first timer was pending.
C21_Witness ==
    /\ alarmCall = [op |-> "start", wasRunning |-> TRUE]
    /\ running
    /\ timer = 1
    /\ DOMAIN pendingTimers = {1}
    /\ now > 0

\* C22: reset() on an alarm that is not running changes nothing: running stays
\* false, no timer is cleared or set, and no event is emitted.
C22_ResetWhileIdleIsNoOp ==
    [][(alarmCall'.op = "reset" /\ ~alarmCall'.wasRunning) =>
          /\ ~running'
          /\ UNCHANGED <<running, timer, pendingTimers, now, timeouts, resetTimers>>]_vars

\* reset was called after the alarm's timer had fired.
C22_Witness ==
    /\ alarmCall = [op |-> "reset", wasRunning |-> FALSE]
    /\ timeouts = <<1>>
    /\ ~running

(***************************************************************************)
(* Claims about PacketNumber                                               *)
(***************************************************************************)
\* The packet number a receiver expects next.
ExpectedPn == add(largestPn, Bignum(0, 1))

\* 2^(8 * size - 1) and 2^(8 * size): half of, and all of, the range of
\* `size` bytes.
HalfRange(size) == shiftLeft(size * 8 - 1)

FullRange(size) == shiftLeft(size * 8)

\* The packet received last was sent with a number less than half the range
\* of its bytes away from the expected one.
SentInRange ==
    LET distance == subtract(sentPn, ExpectedPn)
    IN  /\ greaterThan(distance, subtract(Bignum(0, 0), HalfRange(pnSize)))
        /\ greaterThan(HalfRange(pnSize), distance)

\* C23: for every size of 1, 2 or 4 bytes and every pair (largest, next) with
\* |next - (largest + 1)| < 2^(8 * size - 1), adjustNumber on the PacketNumber
\* holding largest, given the `size` least significant bytes of next, returns
\* next.
C23_Original ==
    (pnSize \in Sizes /\ SentInRange) => adjustedPn = sentPn

\* The largest packet number 0xa82f30ea, the sent number 0xa82f9b32 and its
\* two least significant bytes 0x9b32.
ExampleLargest == Bignum(10 * 4096 + 8 * 256 + 2 * 16 + 15, 3 * 4096 + 0 * 256 + 14 * 16 + 10)

ExampleSent == Bignum(10 * 4096 + 8 * 256 + 2 * 16 + 15, 9 * 4096 + 11 * 256 + 3 * 16 + 2)

ExampleTruncated == Bignum(0, 9 * 4096 + 11 * 256 + 3 * 16 + 2)

\* C24: with the largest received packet number 0xa82f30ea, the truncated
\* packet number 0x9b32 and a size of 2 bytes, adjustNumber returns
\* 0xa82f9b32.
C24_Original ==
    (largestPn = ExampleLargest /\ truncatedPn = ExampleTruncated /\ pnSize = 2)
        => adjustedPn = ExampleSent

\* The expected packet number with its low 8 * size bits replaced by the
\* truncated number.
LowBitsReplaced ==
    LET bits == pnSize * 8
        high == IF bits < 16 THEN Bignum(ExpectedPn.hi, BitsOf(ExpectedPn.lo, bits))
                ELSE Bignum(BitsOf(ExpectedPn.hi, bits - 16), 0)
    IN  add(high, truncatedPn)

\* The underflow guard near zero: the candidate is above the window but not
\* above the range (the range of 8 * size bits, or the one the code took).
UnderflowGuardApplies ==
    /\ \/ greaterThan(LowBitsReplaced, add(ExpectedPn, HalfRange(pnSize)))
       \/ greaterThan(LowBitsReplaced, add(ExpectedPn, divide(shiftLeft(getBitSize(pnSize)))))
    /\ \/ lessThanOrEqual(LowBitsReplaced, FullRange(pnSize))
       \/ lessThanOrEqual(LowBitsReplaced, shiftLeft(getBitSize(pnSize)))

\* C25: for every largest packet number, truncated number and width of w bits
\* (8, 16 or 32), the number adjustNumber returns is the expected number with
\* its low w bits replaced by the truncated one, adjusted by 0, +2^w or -2^w,
\* and lies in the window (largest + 1 - 2^(w-1), largest + 1 + 2^(w-1)],
\* except where the underflow guard near zero applies.
C25_Original ==
    (pnSize \in Sizes /\ ~UnderflowGuardApplies) =>
        /\ adjustedPn \in {LowBitsReplaced,
                           add(LowBitsReplaced, FullRange(pnSize)),
                           subtract(LowBitsReplaced, FullRange(pnSize))}
        /\ greaterThan(adjustedPn, subtract(ExpectedPn, HalfRange(pnSize)))
        /\ lessThanOrEqual(adjustedPn, add(ExpectedPn, HalfRange(pnSize)))

\* C26 as claimed: the send queue never stalls with window available: when
\* queuePackets, onPacketAcked or onPacketsLost returns, the packet queue is
\* empty or bytesInFlight >= congestionWindow.
C26_Original ==
    [][(\/ \E packets \in SeqsUpTo(QueuedPackets, 2) : queuePackets(packets)
        \/ \E pn \in DOMAIN sentPackets : onPacketAcked(pn)
        \/ \E lost \in SUBSET (DOMAIN sentPackets) : onPacketsLost(lost))
           => (packetsQueue' = << >> \/ bytesInFlight' >= congestionWindow')]_vars

(***************************************************************************)
(* Claims about the order of the calls of PacketHandler.handle             *)
(***************************************************************************)
\* The frames handle() passed to the frame handler for the last packet, in
\* the order of the calls.
FramesHandled ==
    LET frameCalls == SelectSeq(calls, LAMBDA c : c.call = "frameHandler.handle")
    IN  [i \in 1..Len(frameCalls) |-> frameCalls[i].arg]

\* How many of the calls handle() made for the last packet were calls of `name`.
CountCalls(name) == Cardinality({i \in 1..Len(calls) : calls[i].call = name})

\* C27: handle processes one packet in a fixed order: onPacketReceived of the
\* ack handler is called exactly once, before anything else; then the frames
\* of the packet go to the frame handler in the order they have in the
\* packet; connection.sendPackets() is called exactly once, after that. When
\* the handler of the packet type throws, sendPackets() is not called.
C27_FixedOrder ==
    packet # NoPacket =>
        /\ calls[1].call = "onPacketReceived"
        /\ CountCalls("onPacketReceived") = 1
        /\ error = "none" =>
              /\ FramesHandled = packet.frames
              /\ calls[Len(calls)].call = "sendPackets"
              /\ CountCalls("sendPackets") = 1
        /\ error # "none" => CountCalls("sendPackets") = 0

\* A Handshake packet with two frames went through handle().
C27_Witness ==
    /\ packet.type = "Handshake"
    /\ packet.frames = <<2, 1>>
    /\ calls = <<Call("onPacketReceived", 0), Call("frameHandler.handle", 2),
                 Call("frameHandler.handle", 1), Call("sendPackets", 0)>>

\* handle() ended up ignoring the last packet: a Retry or Handshake packet
\* rejected with IGNORE_PACKET_ERROR, or a Version Negotiation packet that was
\* ignored or rejected.
PacketIgnored ==
    \/ packet.type \in {"Retry", "Handshake"} /\ error = "IGNORE_PACKET_ERROR"
    \/ packet.type = "VersionNegotiation" /\ ~ResetConnectionCalled

\* C28: a packet the handler ends up ignoring has been reported to the ack
\* handler of the connection through onPacketReceived all the same: that call
\* is the first one handle() makes, ahead of every connection-ID and version
\* check, and the only one it makes on the connection's handlers for such a
\* packet.
C28_IgnoredPacketsAreReported ==
    PacketIgnored =>
        /\ Len(calls) >= 1
        /\ Head(calls) = Call("onPacketReceived", 0)
        /\ ~FrameHandled
        /\ ~ResetStateCalled

\* A Retry packet was rejected with IGNORE_PACKET_ERROR.
C28_Witness ==
    /\ packet.type = "Retry"
    /\ error = "IGNORE_PACKET_ERROR"
    /\ calls = <<Call("onPacketReceived", 0)>>

\* The Version Negotiation packet p is the first one the connection reacts
\* to, carries the connection's IDs, and lists neither the version the client
\* chose nor a version of Constants.SUPPORTED_VERSIONS.
NoVersionOverlap(p) ==
    /\ p.type = "VersionNegotiation"
    /\ connection.version = connection.initialVersion
    /\ connection.initialDestConnectionID = p.srcConnectionID
    /\ connection.srcConnectionID = p.destConnectionID
    /\ \A i \in 1..Len(p.versions) :
          /\ p.versions[i] # connection.initialVersion
          /\ VersionToString(p.versions[i]) \notin SUPPORTED_VERSIONS

\* C29: when a first Version Negotiation packet with correct connection IDs
\* lists neither the client's chosen version nor a supported version,
\* handleVersionNegotiationPacket raises VERSION_NEGOTIATION_ERROR and
\* resetConnection is not called: the version of the connection stays its
\* initial version.
C29_NoOverlapIsAnError ==
    [][\A p \in VersionNegotiationPackets :
          (handle(p) /\ NoVersionOverlap(p)) =>
              /\ error' = "VERSION_NEGOTIATION_ERROR"
              /\ ~ResetConnectionCalled'
              /\ resetConnections' = resetConnections
              /\ connection' = connection
              /\ connection'.version = connection'.initialVersion]_vars

\* A Version Negotiation packet that lists the unsupported version 2 only was
\* rejected by a connection that had not negotiated yet.
C29_Witness ==
    /\ packet.type = "VersionNegotiation"
    /\ packet.versions = <<2>>
    /\ connection.initialDestConnectionID = packet.srcConnectionID
    /\ connection.srcConnectionID = packet.destConnectionID
    /\ connection.initialVersion = 9
    /\ connection.version = connection.initialVersion
    /\ error = "VERSION_NEGOTIATION_ERROR"
    /\ calls = <<Call("onPacketReceived", 0)>>

(***************************************************************************)
(* Claims about the list of a StreamManager                                *)
(***************************************************************************)
\* C30: in every reachable state of a StreamManager, after any sequence of
\* getStream, addStream, deleteStream and getNextStream calls, no two streams
\* of its list have the same stream ID.
C30_UniqueStreamIDs ==
    \A i, j \in DOMAIN streams : streams[i].id = streams[j].id => i = j

\* The list holds two streams, and addStream was called with another Stream
\* object that has the ID of one of them.
C30_Witness ==
    /\ Len(streams) = 2
    /\ \E stream \in Streams, i \in DOMAIN streams :
          stream.id = streams[i].id /\ stream # streams[i]

\* The streams of the list that have the ID streamId.
WithID(list, streamId) == {list[i] : i \in {j \in DOMAIN list : list[j].id = streamId}}

\* C31: getStream(id) is get-or-create and idempotent. A call for an absent
\* ID constructs one stream with that ID, appends it to the list and emits
\* INITIALIZED_STREAM once; a call for an ID that is there returns the stream
\* of the list with that ID (the one returned before, if that is still in the
\* list), adds nothing and emits nothing. After either call hasStream(id)
\* holds.
C31_GetOrCreate ==
    [][\A streamId \in StreamIDs :
          getStream(streamId) =>
              /\ WithID(streams, streamId) = {} =>
                    /\ returned'.id = streamId
                    /\ returned' \notin Streams
                    /\ streams' = Append(streams, returned')
                    /\ initialized' = initialized + 1
              /\ WithID(streams, streamId) # {} =>
                    /\ returned' \in WithID(streams, streamId)
                    /\ (returned \in WithID(streams, streamId) => returned' = returned)
                    /\ UNCHANGED <<streams, constructed, initialized>>
              /\ WithID(streams', streamId) = {returned'}]_vars

\* getStream created two streams and was then called again with the ID of
\* the first: it returned the first, and two events were emitted in all.
C31_Witness ==
    /\ Len(streams) = 2
    /\ Len(constructed) = 2
    /\ initialized = 2
    /\ streams[1].serial = 1
    /\ streams[2].serial = 2
    /\ returned = streams[1]

\* How often the body of the first loop of getNextStream(streamType) runs.
FirstLoopRuns(streamType) == (FirstAbsent(streams, streamType) - streamType) \div 4

\* C32: for every list of streams and every stream type t of 0..3, the stream
\* getNextStream(t) returns has an ID whose low two bits are t, and the call
\* terminates: its first loop runs at most once per stream of the list, its
\* second loop ends at an ID of at most 4.
C32_NextStreamHasType ==
    [][\A streamType \in StreamTypes :
          getNextStream(streamType) =>
              /\ returned' # NoStream
              /\ returned'.id % 4 = streamType
              /\ returned'.id \in 0 .. 4
              /\ returned' \in WithID(streams', returned'.id)
              /\ FirstLoopRuns(streamType) <= Len(streams)]_vars

\* The list holds the streams 0, 1 and 4, each initialized by the manager,
\* and the stream 4, of type 0, was handed out last: with stream 0 in the
\* list, getNextStream(0) hands out the ID 4.
C32_Witness ==
    /\ Len(streams) = 3
    /\ {streams[i].id : i \in DOMAIN streams} = {0, 1, 4}
    /\ returned.id = 4
    /\ initialized = 3

(***************************************************************************)
(* Claims about the order of transmission                                  *)
(***************************************************************************)
\* The packets handed to the socket so far, in the order they were sent: the
\* order of their packet numbers.
InOrderSent(sent, next) ==
    [i \in 1 .. Cardinality(DOMAIN sent) |-> sent[next - Cardinality(DOMAIN sent) + i - 1]]

\* Every packet handed to queuePackets so far, sent or waiting: the sent ones
\* in the order they were sent, then the queue.
Pipeline == InOrderSent(sentPackets, nextPacketNumber) \o packetsQueue

\* C33: packets handed to queuePackets are transmitted in FIFO order, under
\* every interleaving of queuePackets, acknowledgements, losses and
\* timeouts: queuePackets adds its packets at the end of the pipeline, no
\* other event changes the pipeline, and a step only moves packets from the
\* head of the queue to the end of the sent ones. So no packet overtakes an
\* earlier one, none is dropped and none is sent twice.
C33_FIFO ==
    [][/\ \A packets \in SeqsUpTo(QueuedPackets, 2) :
             queuePackets(packets) => Pipeline' = Pipeline \o packets
       /\ (~ \E packets \in SeqsUpTo(QueuedPackets, 2) \ {<< >>} : queuePackets(packets))
             => Pipeline' = Pipeline
       /\ Cardinality(DOMAIN sentPackets') >= Cardinality(DOMAIN sentPackets)
       /\ DOMAIN sentPackets' =
             (nextPacketNumber' - Cardinality(DOMAIN sentPackets')) .. (nextPacketNumber' - 1)
       /\ \A pn \in DOMAIN sentPackets : sentPackets'[pn] = sentPackets[pn]]_vars

\* Packets of both kinds were sent, an acknowledgement or a loss was
\* reported, and one more packet waits in the queue behind them.
C33_Witness ==
    /\ Cardinality(DOMAIN sentPackets) = 3
    /\ \E pn \in DOMAIN sentPackets : sentPackets[pn].ackOnly
    /\ \E pn \in DOMAIN sentPackets : ~sentPackets[pn].ackOnly
    /\ Len(packetsQueue) = 1
    /\ ackedPackets \cup lostPackets # {}

(***************************************************************************)
(* Claims about the liveness of Alarm, under SpecAlarmLive                 *)
(***************************************************************************)
\* TIMEOUT was emitted by the callback of the timer `id`.
TimedOut(id) == \E i \in DOMAIN timeouts : timeouts[i] = id

\* C34: an Alarm that has been started and is not reset eventually emits
\* TIMEOUT, exactly once for that start, and is then not running; and TIMEOUT
\* is never emitted by a callback that found isRunning() false when its
\* timer fired.
C34_StartedAlarmTimesOut ==
    /\ \A id \in 1 .. MaxTimers :
          (running /\ timer = id) ~> (~running /\ (TimedOut(id) \/ id \in resetTimers))
    /\ [](\A i, j \in DOMAIN timeouts : timeouts[i] = timeouts[j] => i = j)
    /\ [](\A id \in resetTimers : ~TimedOut(id))
    /\ [][/\ timeouts' # timeouts =>
                /\ running /\ ~running'
                /\ timeouts' = Append(timeouts, timer)
                /\ alarmCall' = [op |-> "onTimeout", wasRunning |-> TRUE]
          /\ (alarmCall'.op = "onTimeout" /\ ~alarmCall'.wasRunning) => timeouts' = timeouts]_vars

\* The alarm was started twice and never reset; each start ended in one
\* TIMEOUT, and the alarm is not running.
C34_Witness ==
    /\ timeouts = <<1, 2>>
    /\ resetTimers = {}
    /\ ~running
    /\ pendingTimers = << >>

====
